---- MODULE Spec2Model ----
(***************************************************************************)
(* Compound-interest calculator (src/script.js): the five solvers          *)
(* calculateFinalAmount, calculatePrincipal, calculateRate, calculateTime, *)
(* calculateFrequency, and the form controller (updateInputStates,         *)
(* performCalculation) of the DOMContentLoaded handler.                    *)
(*                                                                         *)
(* Two specifications:                                                     *)
(*   Spec        the form: target selections, user edits, submissions;     *)
(*   SolverSpec  the solvers as pure functions applied to drawn inputs.    *)
(***************************************************************************)
EXTENDS Integers, Sequences, FiniteSets, TLC

VARIABLES
    solveFor,    \* solveForSelect.value
    value,       \* inputs[f].value, a sequence of characters per field
    disabled,    \* inputs[f].disabled
    resultDiv,   \* resultDiv.innerHTML, as the rendered paragraph
    calls,       \* the solver calls made by the last request / so far
    in           \* SolverSpec: the quantities the solvers are applied to

vars == <<solveFor, value, disabled, resultDiv, calls, in>>

(***************************************************************************)
(* JavaScript numbers.  A Number is NaN, +/-Infinity, an exact rational    *)
(* n/d, or a "real": a finite double returned by Math.pow or Math.log      *)
(* that is irrational in general and is kept as the expression that        *)
(* produced it.  Rounding of finite doubles, underflow and the sign of     *)
(* zero are not modelled; overflow is: a magnitude above MaxFinite becomes *)
(* Infinity, as a magnitude above Number.MAX_VALUE does in the program.    *)
(***************************************************************************)

\* Stand-in for Number.MAX_VALUE (about 1.8e308), scaled to the model's inputs.
MaxFinite == 2000

Abs(i) == IF i < 0 THEN -i ELSE i

Sign(i) == IF i < 0 THEN -1 ELSE IF i > 0 THEN 1 ELSE 0

RECURSIVE GCD(_, _)
GCD(a, b) == IF b = 0 THEN a ELSE GCD(b, a % b)

RECURSIVE Pow10(_)
Pow10(k) == IF k = 0 THEN 1 ELSE 10 * Pow10(k - 1)

NaN == [k |-> "nan", n |-> 0, d |-> 1, x |-> <<>>]

Inf(s) == [k |-> "inf", n |-> s, d |-> 1, x |-> <<>>]

\* typeof undefined: the absent 'value' property of a result object
UndefinedNum == [k |-> "undefined", n |-> 0, d |-> 1, x |-> <<>>]

\* the rational n/d (d > 0) in lowest terms, or Infinity past the finite range
Rat(n, d) ==
    IF Abs(n) \div d > MaxFinite \/ (Abs(n) \div d = MaxFinite /\ Abs(n) % d > 0)
    THEN Inf(Sign(n))
    ELSE LET g == GCD(Abs(n), d)
         IN  [k |-> "rat", n |-> n \div g, d |-> d \div g, x |-> <<>>]

Int2Num(i) == Rat(i, 1)

\* a finite double the model keeps symbolically: op applied to a and b
Real(op, a, b) == [k |-> "real", n |-> 1, d |-> 1, x |-> <<op, a, b>>]

IsNaN(a) == a.k = "nan"

IsFinite(a) == a.k \in {"rat", "real"}

\* sign of a number that is not NaN; reals met by these operators are positive
SignOf(a) == IF a.k = "real" THEN 1 ELSE Sign(a.n)

\* a < b, false when either is NaN
Lt(a, b) ==
    IF IsNaN(a) \/ IsNaN(b) THEN FALSE
    ELSE IF a.k = "rat" /\ b.k = "rat" THEN a.n * b.d < b.n * a.d
    ELSE IF a.k = "inf" /\ b.k = "inf" THEN a.n < b.n
    ELSE IF a.k = "inf" THEN a.n < 0
    ELSE IF b.k = "inf" THEN b.n > 0
    ELSE FALSE

\* a === b on numbers, false when either is NaN
StrictEq(a, b) == ~IsNaN(a) /\ ~IsNaN(b) /\ a = b

Le(a, b) == Lt(a, b) \/ StrictEq(a, b)

Gt(a, b) == Lt(b, a)

Zero == Int2Num(0)

One == Int2Num(1)

Hundred == Int2Num(100)

Neg(a) ==
    CASE a.k = "rat" -> Rat(-a.n, a.d)
      [] a.k = "inf" -> Inf(-a.n)
      [] a.k = "real" -> Real("neg", a, a)
      [] OTHER -> NaN

Mul(a, b) ==
    IF IsNaN(a) \/ IsNaN(b) THEN NaN
    ELSE IF a.k = "rat" /\ b.k = "rat"
    THEN LET g == GCD(Abs(a.n), b.d)
             h == GCD(Abs(b.n), a.d)
         IN  Rat((a.n \div g) * (b.n \div h), (a.d \div h) * (b.d \div g))
    ELSE IF a.k = "inf" \/ b.k = "inf"
    THEN IF SignOf(a) * SignOf(b) = 0 THEN NaN ELSE Inf(SignOf(a) * SignOf(b))
    ELSE IF a = Zero \/ b = Zero THEN Zero
    ELSE Real("mul", a, b)

Div(a, b) ==
    IF IsNaN(a) \/ IsNaN(b) THEN NaN
    ELSE IF a.k = "inf" /\ b.k = "inf" THEN NaN
    ELSE IF a.k = "inf" THEN Inf(IF SignOf(b) < 0 THEN -a.n ELSE a.n)
    ELSE IF b.k = "inf" THEN Zero
    ELSE IF b = Zero THEN (IF SignOf(a) = 0 THEN NaN ELSE Inf(SignOf(a)))
    ELSE IF a.k = "rat" /\ b.k = "rat"
    THEN LET g == GCD(Abs(a.n), Abs(b.n))
             h == GCD(b.d, a.d)
         IN  Rat((a.n \div g) * (b.d \div h) * Sign(b.n),
                 (a.d \div h) * (Abs(b.n) \div g))
    ELSE IF a = Zero THEN Zero
    ELSE Real("div", a, b)

Add(a, b) ==
    IF IsNaN(a) \/ IsNaN(b) THEN NaN
    ELSE IF a.k = "inf" /\ b.k = "inf" THEN (IF a.n = b.n THEN a ELSE NaN)
    ELSE IF a.k = "inf" THEN a
    ELSE IF b.k = "inf" THEN b
    ELSE IF a.k = "rat" /\ b.k = "rat" THEN Rat(a.n * b.d + b.n * a.d, a.d * b.d)
    ELSE Real("add", a, b)

Sub(a, b) == IF b.k = "real" THEN Real("sub", a, b) ELSE Add(a, Neg(b))

\* base^k for an integer k >= 0, by repeated multiplication
RECURSIVE PowInt(_, _)
PowInt(base, k) == IF k = 0 THEN One ELSE Mul(base, PowInt(base, k - 1))

\* Math.pow(base, exponent); an infinite exponent is taken with a base >= 0
MathPow(base, exponent) ==
    IF IsNaN(exponent) THEN NaN
    ELSE IF exponent = Zero THEN One
    ELSE IF IsNaN(base) THEN NaN
    ELSE IF exponent.k = "inf"
    THEN IF base = One THEN NaN
         ELSE IF Lt(One, base) = (exponent.n > 0) THEN Inf(1) ELSE Zero
    ELSE IF base = One THEN One
    ELSE IF exponent.k = "rat" /\ exponent.d = 1
    THEN IF exponent.n > 0 THEN PowInt(base, exponent.n)
         ELSE Div(One, PowInt(base, -exponent.n))
    ELSE IF base.k = "inf"
    THEN IF base.n < 0 THEN Inf(1) ELSE IF SignOf(exponent) > 0 THEN Inf(1) ELSE Zero
    ELSE IF base = Zero THEN (IF SignOf(exponent) > 0 THEN Zero ELSE Inf(1))
    ELSE IF Lt(base, Zero) THEN NaN
    ELSE Real("pow", base, exponent)

\* Math.log(a)
MathLog(a) ==
    IF IsNaN(a) THEN NaN
    ELSE IF a = Zero THEN Inf(-1)
    ELSE IF a = One THEN Zero
    ELSE IF a.k = "inf" THEN (IF a.n > 0 THEN Inf(1) ELSE NaN)
    ELSE IF a.k = "rat" /\ a.n < 0 THEN NaN
    ELSE Real("log", a, a)

\* parseFloat(x.toFixed(digits)): x rounded to that many decimals, ties away
\* from zero
ToFixed(a, digits) ==
    CASE a.k = "rat" ->
            LET p == Pow10(digits)
                m == ((2 * Abs(a.n) * p) + a.d) \div (2 * a.d)
            IN  Rat(Sign(a.n) * m, p)
      [] a.k = "real" -> Real("toFixed", a, Int2Num(digits))
      [] OTHER -> a

\* Math.round(x): the nearest integer, ties upward
MathRound(a) ==
    CASE a.k = "rat" -> Rat((2 * a.n + a.d) \div (2 * a.d), 1)
      [] a.k = "real" -> Real("round", a, a)
      [] OTHER -> a

(***************************************************************************)
(* parseFloat and parseInt on a field's text: a sequence of characters.    *)
(* Both read the longest numeric prefix and give NaN when there is none.   *)
(***************************************************************************)

Digits == <<"0", "1", "2", "3", "4", "5", "6", "7", "8", "9">>

IsDigit(c) == \E i \in 1..10 : Digits[i] = c

DigitVal(c) == (CHOOSE i \in 1..10 : Digits[i] = c) - 1

\* number of digits of s from position i on
RECURSIVE DigitRun(_, _)
DigitRun(s, i) ==
    IF i <= Len(s) /\ IsDigit(s[i]) THEN 1 + DigitRun(s, i + 1) ELSE 0

\* the decimal value of the c digits of s that start at position i
RECURSIVE DigitsVal(_, _, _)
DigitsVal(s, i, c) ==
    IF c = 0 THEN 0 ELSE 10 * DigitsVal(s, i, c - 1) + DigitVal(s[i + c - 1])

SignLen(s) == IF Len(s) >= 1 /\ s[1] \in {"-", "+"} THEN 1 ELSE 0

SignVal(s) == IF Len(s) >= 1 /\ s[1] = "-" THEN -1 ELSE 1

parseInt(s) ==
    LET i == SignLen(s) + 1
        c == DigitRun(s, i)
    IN  IF c = 0 THEN NaN ELSE Rat(SignVal(s) * DigitsVal(s, i, c), 1)

parseFloat(s) ==
    LET i == SignLen(s) + 1
        c == DigitRun(s, i)
        dot == i + c <= Len(s) /\ s[i + c] = "."
        f == IF dot THEN DigitRun(s, i + c + 1) ELSE 0
    IN  IF c + f = 0 THEN NaN
        ELSE Rat(SignVal(s) * (DigitsVal(s, i, c) * Pow10(f) + DigitsVal(s, i + c + 1, f)),
                 Pow10(f))

(***************************************************************************)
(* The solvers.  A result object has the properties error, message and     *)
(* value; a property the object literal does not set is undefined.         *)
(***************************************************************************)

Undefined == "<undefined>"

ErrorResult(msg) == [error |-> msg, message |-> Undefined, value |-> UndefinedNum]

MessageResult(msg) == [error |-> Undefined, message |-> msg, value |-> UndefinedNum]

ValueResult(v) == [error |-> Undefined, message |-> Undefined, value |-> v]

ErrFinalAmountRange ==
    "Principal, Rate, Time, and Frequency must be positive. Rate can be zero."

ErrPrincipalRange ==
    "Amount, Rate, Time, and Frequency must be positive. Rate can be zero."

ErrRateRange == "Amount, Principal, Time, and Frequency must be positive."

ErrRateShrink ==
    "Final Amount (A) cannot be less than Principal (P) when calculating rate."

ErrRateNegativeBase ==
    "Cannot calculate rate with negative A/P ratio (should not happen with positive A, P)."

ErrRateInvalid == "Could not calculate a valid rate. Check input values."

ErrTimeRange ==
    "Amount, Principal, Rate, and Frequency must be positive for time calculation."

ErrTimeShrink ==
    "Final Amount (A) cannot be less than Principal (P) if rate is positive."

ErrTimeNoGrowth == "Rate must be greater than 0 for Amount to grow."

ErrTimeZeroDenominator ==
    "Cannot calculate time. Possible division by zero (check rate and frequency)."

ErrTimeRatio == "Cannot calculate time with non-positive A/P ratio."

ErrTimeLog ==
    "Cannot calculate time due to log of non-positive value in denominator."

ErrTimeInvalid ==
    "Could not calculate a valid time. Check input values (e.g. A < P with positive rate)."

MsgFrequency ==
    "Solving for Compounding Frequency (n) directly is mathematically complex and not supported by this calculator. Consider testing different 'n' values by solving for 'A'."

calculateFinalAmount(P, R_annual, T_years, n_compound_freq) ==
    IF Le(P, Zero) \/ Lt(R_annual, Zero) \/ Le(T_years, Zero) \/ Le(n_compound_freq, Zero)
    THEN ErrorResult(ErrFinalAmountRange)
    ELSE LET R_decimal == Div(R_annual, Hundred)
             A == Mul(P, MathPow(Add(One, Div(R_decimal, n_compound_freq)),
                                 Mul(n_compound_freq, T_years)))
         IN  ValueResult(A)

\* calculatePrincipal with the compounding frequency left out of the exponent
calculatePrincipal_ExponentT(A, R_annual, T_years, n_compound_freq) ==
    IF Le(A, Zero) \/ Lt(R_annual, Zero) \/ Le(T_years, Zero) \/ Le(n_compound_freq, Zero)
    THEN ErrorResult(ErrPrincipalRange)
    ELSE LET R_decimal == Div(R_annual, Hundred)
             P == Div(A, MathPow(Add(One, Div(R_decimal, n_compound_freq)), T_years))
         IN  ValueResult(P)

calculatePrincipal(A, R_annual, T_years, n_compound_freq) ==
    IF Le(A, Zero) \/ Lt(R_annual, Zero) \/ Le(T_years, Zero) \/ Le(n_compound_freq, Zero)
    THEN ErrorResult(ErrPrincipalRange)
    ELSE LET R_decimal == Div(R_annual, Hundred)
             P == Div(A, MathPow(Add(One, Div(R_decimal, n_compound_freq)),
                                 Mul(n_compound_freq, T_years)))
         IN  ValueResult(P)

calculateRate(A, P, T_years, n_compound_freq) ==
    IF Le(A, Zero) \/ Le(P, Zero) \/ Le(T_years, Zero) \/ Le(n_compound_freq, Zero)
    THEN ErrorResult(ErrRateRange)
    ELSE IF Lt(A, P)
    THEN ErrorResult(ErrRateShrink)
    ELSE LET base == Div(A, P)
             exponent == Div(One, Mul(n_compound_freq, T_years))
             term == MathPow(base, exponent)
             R_decimal == Mul(n_compound_freq, Sub(term, One))
             R_annual == Mul(R_decimal, Hundred)
         IN  IF Lt(base, Zero) THEN ErrorResult(ErrRateNegativeBase)
             ELSE IF IsNaN(R_decimal) \/ ~IsFinite(R_decimal)
             THEN ErrorResult(ErrRateInvalid)
             ELSE ValueResult(R_annual)

calculateTime(A, P, R_annual, n_compound_freq) ==
    IF Le(A, Zero) \/ Le(P, Zero) \/ Le(R_annual, Zero) \/ Le(n_compound_freq, Zero)
    THEN ErrorResult(ErrTimeRange)
    ELSE IF Lt(A, P) /\ Gt(R_annual, Zero)
    THEN ErrorResult(ErrTimeShrink)
    ELSE IF StrictEq(A, P) /\ Gt(R_annual, Zero)
    THEN ValueResult(Zero)
    ELSE IF Gt(A, P) /\ StrictEq(R_annual, Zero)
    THEN ErrorResult(ErrTimeNoGrowth)
    ELSE LET R_decimal == Div(R_annual, Hundred)
             numerator == MathLog(Div(A, P))
             growth == Add(One, Div(R_decimal, n_compound_freq))
             denominator == Mul(n_compound_freq, MathLog(growth))
             T_years == Div(numerator, denominator)
         IN  IF StrictEq(denominator, Zero) THEN ErrorResult(ErrTimeZeroDenominator)
             ELSE IF Le(Div(A, P), Zero) THEN ErrorResult(ErrTimeRatio)
             ELSE IF Le(growth, Zero) THEN ErrorResult(ErrTimeLog)
             ELSE IF IsNaN(T_years) \/ ~IsFinite(T_years)
             THEN ErrorResult(ErrTimeInvalid)
             ELSE ValueResult(T_years)

\* calculateFrequency with the text returned under 'error' instead of 'message'
calculateFrequency_Error(A, P, R_annual, T_years) == ErrorResult(MsgFrequency)

calculateFrequency(A, P, R_annual, T_years) == MessageResult(MsgFrequency)

(***************************************************************************)
(* The form controller.                                                    *)
(***************************************************************************)

\* the keys of 'inputs', which are also the options of the 'solve for' select
Fields == {"principal", "rate", "time", "frequency", "amount"}

\* what a user types into a field
Texts ==
    { <<>>, <<"0">>, <<"-", "1">>, <<"1">>, <<"1", ".", "5">> }

\* the paragraph written to resultDiv.innerHTML; Blank is the cleared div
Blank == [cls |-> "", text |-> "", label |-> "", num |-> UndefinedNum, unit |-> ""]

ErrorLine(msg) ==
    [cls |-> "error", text |-> msg, label |-> "", num |-> UndefinedNum, unit |-> ""]

MessageLine(msg) ==
    [cls |-> "p", text |-> msg, label |-> "", num |-> UndefinedNum, unit |-> ""]

ValueLine(label, num, unit) ==
    [cls |-> "p", text |-> "", label |-> label, num |-> num, unit |-> unit]

ErrValidPrincipal == "Principal (P) must be a positive number."

ErrValidRate == "Rate (R) must be a non-negative number."

ErrValidTime == "Time (T) must be a positive number."

ErrValidFrequency == "Compounding Frequency (n) must be a positive integer."

ErrValidAmount == "Final Amount (A) must be a positive number."

ErrInvalidSelection == "Invalid selection for 'solve for'."

ErrUnexpected == "An unexpected error occurred during calculation."

NoError == ""

\* a string used as a condition: undefined and the empty string are falsy
Truthy(str) == str # Undefined /\ str # ""

\* solveForValue.charAt(0).toUpperCase() + solveForValue.slice(1)
resultLabel(target) ==
    CASE target = "principal" -> "Principal"
      [] target = "rate" -> "Rate"
      [] target = "time" -> "Time"
      [] target = "frequency" -> "Frequency"
      [] target = "amount" -> "Amount"

\* updateInputStates without the loop that enables every input first
updateInputStates_KeepDisabled(target) ==
    /\ disabled' = [disabled EXCEPT ![target] = TRUE]
    /\ value' = [f \in Fields |-> IF f = target THEN <<>> ELSE value[f]]

\* updateInputStates clearing every input, not only the target's
updateInputStates_ClearAll(target) ==
    /\ disabled' = [f \in Fields |-> f = target]
    /\ value' = [f \in Fields |-> <<>>]

\* updateInputStates without the line that clears the target's value
updateInputStates_KeepValue(target) ==
    /\ disabled' = [f \in Fields |-> f = target]
    /\ value' = value

\* updateInputStates: enable every input, then disable and clear the target's
updateInputStates(target) ==
    /\ disabled' = [f \in Fields |-> f = target]
    /\ value' = [f \in Fields |-> IF f = target THEN <<>> ELSE value[f]]

\* the validation chain without the branch for the rate
validationError_NoRateCheck(target, dis, P_val, R_val, T_val, n_val, A_val) ==
    IF target # "principal" /\ ~dis["principal"] /\ (IsNaN(P_val) \/ Le(P_val, Zero))
    THEN ErrValidPrincipal
    ELSE IF target # "time" /\ ~dis["time"] /\ (IsNaN(T_val) \/ Le(T_val, Zero))
    THEN ErrValidTime
    ELSE IF target # "frequency" /\ ~dis["frequency"] /\ (IsNaN(n_val) \/ Le(n_val, Zero))
    THEN ErrValidFrequency
    ELSE IF target # "amount" /\ ~dis["amount"] /\ (IsNaN(A_val) \/ Le(A_val, Zero))
    THEN ErrValidAmount
    ELSE NoError

\* the if / else-if chain that validates the fields that are not solved for
validationError(target, dis, P_val, R_val, T_val, n_val, A_val) ==
    IF target # "principal" /\ ~dis["principal"] /\ (IsNaN(P_val) \/ Le(P_val, Zero))
    THEN ErrValidPrincipal
    ELSE IF target # "rate" /\ ~dis["rate"] /\ (IsNaN(R_val) \/ Lt(R_val, Zero))
    THEN ErrValidRate
    ELSE IF target # "time" /\ ~dis["time"] /\ (IsNaN(T_val) \/ Le(T_val, Zero))
    THEN ErrValidTime
    ELSE IF target # "frequency" /\ ~dis["frequency"] /\ (IsNaN(n_val) \/ Le(n_val, Zero))
    THEN ErrValidFrequency
    ELSE IF target # "amount" /\ ~dis["amount"] /\ (IsNaN(A_val) \/ Le(A_val, Zero))
    THEN ErrValidAmount
    ELSE NoError

\* a solver call: the function, its arguments in order, what it returned
Call(fn, args, ret) == [fn |-> fn, args |-> args, ret |-> ret]

\* the switch with the amount and the principal exchanged in the 'rate' case
dispatch_SwappedRateArgs(target, P_val, R_val, T_val, n_val, A_val) ==
    CASE target = "amount" ->
            Call("calculateFinalAmount", <<P_val, R_val, T_val, n_val>>,
                 calculateFinalAmount(P_val, R_val, T_val, n_val))
      [] target = "principal" ->
            Call("calculatePrincipal", <<A_val, R_val, T_val, n_val>>,
                 calculatePrincipal(A_val, R_val, T_val, n_val))
      [] target = "rate" ->
            Call("calculateRate", <<P_val, A_val, T_val, n_val>>,
                 calculateRate(P_val, A_val, T_val, n_val))
      [] target = "time" ->
            Call("calculateTime", <<A_val, P_val, R_val, n_val>>,
                 calculateTime(A_val, P_val, R_val, n_val))
      [] target = "frequency" ->
            Call("calculateFrequency", <<A_val, P_val, R_val, T_val>>,
                 calculateFrequency(A_val, P_val, R_val, T_val))
      [] OTHER -> Call("", <<>>, ErrorResult(ErrInvalidSelection))

\* the switch on solveForValue, as the call it makes
dispatch(target, P_val, R_val, T_val, n_val, A_val) ==
    CASE target = "amount" ->
            Call("calculateFinalAmount", <<P_val, R_val, T_val, n_val>>,
                 calculateFinalAmount(P_val, R_val, T_val, n_val))
      [] target = "principal" ->
            Call("calculatePrincipal", <<A_val, R_val, T_val, n_val>>,
                 calculatePrincipal(A_val, R_val, T_val, n_val))
      [] target = "rate" ->
            Call("calculateRate", <<A_val, P_val, T_val, n_val>>,
                 calculateRate(A_val, P_val, T_val, n_val))
      [] target = "time" ->
            Call("calculateTime", <<A_val, P_val, R_val, n_val>>,
                 calculateTime(A_val, P_val, R_val, n_val))
      [] target = "frequency" ->
            Call("calculateFrequency", <<A_val, P_val, R_val, T_val>>,
                 calculateFrequency(A_val, P_val, R_val, T_val))
      [] OTHER -> Call("", <<>>, ErrorResult(ErrInvalidSelection))

\* the value branch: label, rounded value and unit for the target
valueLine(target, v) ==
    CASE target = "rate" -> ValueLine(resultLabel(target), ToFixed(v, 2), "%")
      [] target = "time" -> ValueLine(resultLabel(target), ToFixed(v, 2), " years")
      [] target \in {"principal", "amount"} ->
            ValueLine(resultLabel(target), ToFixed(v, 2), "")
      [] target = "frequency" -> ValueLine(resultLabel(target), MathRound(v), "")
      [] OTHER -> ValueLine(resultLabel(target), ToFixed(v, 4), "")

\* the rendering chain testing the value for truthiness: 0 and NaN are falsy
render_TruthyValue(target, calculationResult) ==
    IF Truthy(calculationResult.error)
    THEN ErrorLine(calculationResult.error)
    ELSE IF Truthy(calculationResult.message)
    THEN MessageLine(calculationResult.message)
    ELSE IF /\ calculationResult.value # UndefinedNum
            /\ calculationResult.value # Zero
            /\ ~IsNaN(calculationResult.value)
    THEN valueLine(target, calculationResult.value)
    ELSE ErrorLine(ErrUnexpected)

\* the if / else-if chain that renders a solver's result
render(target, calculationResult) ==
    IF Truthy(calculationResult.error)
    THEN ErrorLine(calculationResult.error)
    ELSE IF Truthy(calculationResult.message)
    THEN MessageLine(calculationResult.message)
    ELSE IF calculationResult.value # UndefinedNum
    THEN valueLine(target, calculationResult.value)
    ELSE ErrorLine(ErrUnexpected)

Init ==
    /\ solveFor = "amount"
    /\ value = [f \in Fields |-> <<>>]
    /\ disabled = [f \in Fields |-> f = "amount"]
    /\ resultDiv = Blank
    /\ calls = <<>>
    /\ in = <<>>

\* the user picks another option of the select: its 'change' listener runs
SelectTarget ==
    \E target \in Fields :
        /\ target # solveFor
        /\ solveFor' = target
        /\ updateInputStates(target)
        /\ UNCHANGED <<resultDiv, calls, in>>

\* the user types into an input that is not disabled
EditField ==
    \E f \in Fields, text \in Texts :
        /\ ~disabled[f]
        /\ value' = [value EXCEPT ![f] = text]
        /\ UNCHANGED <<solveFor, disabled, resultDiv, calls, in>>

\* performCalculation on the form as it is: what it writes to resultDiv, and
\* the solver calls it makes
performCalculation ==
    LET P_val == parseFloat(value["principal"])
        R_val == parseFloat(value["rate"])
        T_val == parseFloat(value["time"])
        n_val == parseInt(value["frequency"])
        A_val == parseFloat(value["amount"])
        err == validationError(solveFor, disabled, P_val, R_val, T_val, n_val, A_val)
        call == dispatch(solveFor, P_val, R_val, T_val, n_val, A_val)
    IN  IF Truthy(err)
        THEN [resultDiv |-> ErrorLine(err), calls |-> <<>>]
        ELSE [resultDiv |-> render(solveFor, call.ret), calls |-> <<call>>]

\* the form is submitted: performCalculation runs to its end
PerformCalculation ==
    /\ resultDiv' = performCalculation.resultDiv
    /\ calls' = performCalculation.calls
    /\ UNCHANGED <<solveFor, value, disabled, in>>

Next == SelectTarget \/ EditField \/ PerformCalculation

Spec == Init /\ [][Next]_vars

(***************************************************************************)
(* The solvers as pure functions: SolverSpec draws the quantities A, P, R, *)
(* T, n and applies each solver to them once.  T and n are integers here,  *)
(* so that Math.pow is computed exactly.                                   *)
(***************************************************************************)

SolverAmounts == { Int2Num(-5), Zero, One, Int2Num(1000), Int2Num(1200) }

SolverRates == { Int2Num(-5), Zero, Int2Num(50), Int2Num(100) }

SolverTimes == { Int2Num(-1), Zero, One, Int2Num(2) }

SolverFrequencies == { Int2Num(-1), Zero, One, Int2Num(2) }

SolverInit ==
    /\ solveFor = "amount"
    /\ value = [f \in Fields |-> <<>>]
    /\ disabled = [f \in Fields |-> f = "amount"]
    /\ resultDiv = Blank
    /\ calls = <<>>
    /\ in \in [A : SolverAmounts, P : SolverAmounts, R : SolverRates,
               T : SolverTimes, n : SolverFrequencies]

ApplyFinalAmount ==
    /\ calls = <<>>
    /\ calls' = <<Call("calculateFinalAmount", <<in.P, in.R, in.T, in.n>>,
                       calculateFinalAmount(in.P, in.R, in.T, in.n))>>
    /\ UNCHANGED <<solveFor, value, disabled, resultDiv, in>>

\* calculatePrincipal applied to the amount calculateFinalAmount returned
ApplyPrincipalToAmount ==
    /\ Len(calls) = 1
    /\ calls[1].fn = "calculateFinalAmount"
    /\ calls[1].ret.value # UndefinedNum
    /\ calls' = Append(calls,
                       Call("calculatePrincipal",
                            <<calls[1].ret.value, in.R, in.T, in.n>>,
                            calculatePrincipal(calls[1].ret.value, in.R, in.T, in.n)))
    /\ UNCHANGED <<solveFor, value, disabled, resultDiv, in>>

ApplyPrincipal ==
    /\ calls = <<>>
    /\ calls' = <<Call("calculatePrincipal", <<in.A, in.R, in.T, in.n>>,
                       calculatePrincipal(in.A, in.R, in.T, in.n))>>
    /\ UNCHANGED <<solveFor, value, disabled, resultDiv, in>>

ApplyRate ==
    /\ calls = <<>>
    /\ calls' = <<Call("calculateRate", <<in.A, in.P, in.T, in.n>>,
                       calculateRate(in.A, in.P, in.T, in.n))>>
    /\ UNCHANGED <<solveFor, value, disabled, resultDiv, in>>

ApplyTime ==
    /\ calls = <<>>
    /\ calls' = <<Call("calculateTime", <<in.A, in.P, in.R, in.n>>,
                       calculateTime(in.A, in.P, in.R, in.n))>>
    /\ UNCHANGED <<solveFor, value, disabled, resultDiv, in>>

ApplyFrequency ==
    /\ calls = <<>>
    /\ calls' = <<Call("calculateFrequency", <<in.A, in.P, in.R, in.T>>,
                       calculateFrequency(in.A, in.P, in.R, in.T))>>
    /\ UNCHANGED <<solveFor, value, disabled, resultDiv, in>>

SolverNext ==
    \/ ApplyFinalAmount
    \/ ApplyPrincipalToAmount
    \/ ApplyPrincipal
    \/ ApplyRate
    \/ ApplyTime
    \/ ApplyFrequency

SolverSpec == SolverInit /\ [][SolverNext]_vars

(***************************************************************************)
(* Vocabulary of the properties.                                           *)
(***************************************************************************)

\* the fixed field order of the validation
FieldOrder == <<"principal", "rate", "time", "frequency", "amount">>

ValidationMessage(f) ==
    CASE f = "principal" -> ErrValidPrincipal
      [] f = "rate" -> ErrValidRate
      [] f = "time" -> ErrValidTime
      [] f = "frequency" -> ErrValidFrequency
      [] f = "amount" -> ErrValidAmount

ValidationErrors == { ValidationMessage(f) : f \in Fields }

\* the error taxonomy: out-of-range values
InvalidInput == { ErrFinalAmountRange, ErrPrincipalRange, ErrRateRange, ErrTimeRange }

\* the error taxonomy: values valid one by one but jointly inconsistent
DomainViolation == { ErrRateShrink, ErrTimeShrink, ErrTimeNoGrowth }

\* the error taxonomy: the closed form is undefined or not finite
NumericDomainError ==
    { ErrRateNegativeBase, ErrRateInvalid, ErrTimeZeroDenominator, ErrTimeRatio,
      ErrTimeLog, ErrTimeInvalid }

SolverErrors == InvalidInput \cup DomainViolation \cup NumericDomainError

\* the whole text is an integer literal
IsIntegerText(s) ==
    LET i == SignLen(s) + 1
        c == DigitRun(s, i)
    IN  c >= 1 /\ i + c - 1 = Len(s)

\* the whole text is a decimal literal
IsNumberText(s) ==
    LET i == SignLen(s) + 1
        c == DigitRun(s, i)
        dot == i + c <= Len(s) /\ s[i + c] = "."
        f == IF dot THEN DigitRun(s, i + c + 1) ELSE 0
    IN  c + f >= 1 /\ Len(s) = (IF dot THEN i + c + f ELSE i + c - 1)

\* the constraint of a field on what the field holds
Constraint(f, s) ==
    CASE f \in {"principal", "time", "amount"} ->
            IsNumberText(s) /\ Gt(parseFloat(s), Zero)
      [] f = "rate" -> IsNumberText(s) /\ Le(Zero, parseFloat(s))
      [] f = "frequency" -> IsIntegerText(s) /\ Gt(parseInt(s), Zero)

\* the constraint of a field on the number the request reads from it
ParsedConstraint(f, s) ==
    CASE f \in {"principal", "time", "amount"} -> Gt(parseFloat(s), Zero)
      [] f = "rate" -> Le(Zero, parseFloat(s))
      [] f = "frequency" -> Gt(parseInt(s), Zero)

\* positions in FieldOrder of the non-target fields that violate pred
Violations(pred(_, _)) ==
    { i \in 1..5 : FieldOrder[i] # solveFor /\ ~pred(FieldOrder[i], value[FieldOrder[i]]) }

Min(S) == CHOOSE i \in S : \A j \in S : i <= j

\* the outcome of a request made now, when pred is the fields' constraint
FirstViolationReported(pred(_, _)) ==
    IF Violations(pred) # {}
    THEN /\ performCalculation.resultDiv
               = ErrorLine(ValidationMessage(FieldOrder[Min(Violations(pred))]))
         /\ performCalculation.calls = <<>>
    ELSE Len(performCalculation.calls) = 1

\* the numbers the request reads from the fields
Parsed ==
    [principal |-> parseFloat(value["principal"]),
     rate |-> parseFloat(value["rate"]),
     time |-> parseFloat(value["time"]),
     frequency |-> parseInt(value["frequency"]),
     amount |-> parseFloat(value["amount"])]

\* the request passes the validation
PassesValidation ==
    ~Truthy(validationError(solveFor, disabled, Parsed.principal, Parsed.rate,
                            Parsed.time, Parsed.frequency, Parsed.amount))

\* how many of error, message, value a result object carries
Carried(r) ==
    (IF r.error # Undefined THEN 1 ELSE 0)
    + (IF r.message # Undefined THEN 1 ELSE 0)
    + (IF r.value # UndefinedNum THEN 1 ELSE 0)

(***************************************************************************)
(* C1.  Validation order and short circuit.                                *)
(***************************************************************************)

\* C1: on a calculation request every non-target field is checked in the order
\* principal, rate, time, frequency, amount against its constraint (a positive
\* number; rate a non-negative number; frequency a positive integer); if one is
\* violated the output is the validation error of the first violated field and
\* no solver is invoked, and otherwise a solver is invoked.
C1_FirstViolatedFieldReported == FirstViolationReported(Constraint)

\* The same with each constraint read on the number parseFloat / parseInt gives:
\* this is what the request enforces.
ParsedValuesValidationOrder == FirstViolationReported(ParsedConstraint)

(***************************************************************************)
(* C2.  Exactly the target's input is disabled, and it is empty.           *)
(***************************************************************************)

TargetDisabledAndEmpty ==
    /\ Cardinality({ f \in Fields : disabled[f] }) = 1
    /\ \A f \in Fields : disabled[f] <=> f = solveFor
    /\ value[solveFor] = <<>>

\* C2: initially the target is 'amount', and in every state reached by target
\* selections, edits of enabled fields and calculation requests exactly one
\* input is disabled, it is the selected target's, and its value is empty.
C2_ExactlyTargetDisabled ==
    /\ solveFor = "amount"
    /\ []TargetDisabledAndEmpty

C2_Witness ==
    /\ solveFor = "time"
    /\ disabled["time"]
    /\ value["amount"] # <<>>
    /\ resultDiv # Blank

(***************************************************************************)
(* C3.  Selecting a target changes the new target's value only.            *)
(***************************************************************************)

\* C3: a target selection empties the newly selected target's field and leaves
\* the value of every other field, the previous target's included, as it was.
C3_SelectionClearsTargetOnly ==
    [][solveFor' # solveFor => value' = [value EXCEPT ![solveFor'] = <<>>]]_vars

C3_Witness ==
    /\ solveFor = "rate"
    /\ value["rate"] = <<>>
    /\ value["amount"] = <<>>
    /\ \A f \in {"principal", "time", "frequency"} : value[f] = <<"1", ".", "5">>

(***************************************************************************)
(* C4.  Dispatch.                                                          *)
(***************************************************************************)

ExpectedSolver(target) ==
    CASE target = "amount" -> "calculateFinalAmount"
      [] target = "principal" -> "calculatePrincipal"
      [] target = "rate" -> "calculateRate"
      [] target = "time" -> "calculateTime"
      [] target = "frequency" -> "calculateFrequency"

\* the four non-target quantities in the solver's parameter order
ExpectedArgs(target, q) ==
    CASE target = "amount" -> <<q.principal, q.rate, q.time, q.frequency>>
      [] target = "principal" -> <<q.amount, q.rate, q.time, q.frequency>>
      [] target = "rate" -> <<q.amount, q.principal, q.time, q.frequency>>
      [] target = "time" -> <<q.amount, q.principal, q.rate, q.frequency>>
      [] target = "frequency" -> <<q.amount, q.principal, q.rate, q.time>>

\* C4: when validation passes, the request invokes exactly one solver, the one
\* of the active target, with the four non-target values (as read from the
\* fields) in that solver's parameter order; the cleared value of the target's
\* field, which reads as NaN, is not among the arguments.
C4_DispatchMatchesTarget ==
    PassesValidation =>
        LET made == performCalculation.calls
        IN  /\ Len(made) = 1
            /\ made[1].fn = ExpectedSolver(solveFor)
            /\ made[1].args = ExpectedArgs(solveFor, Parsed)
            /\ \A i \in 1..4 : ~IsNaN(made[1].args[i])
            /\ IsNaN(Parsed[solveFor])

C4_Witness ==
    /\ Len(calls) = 1
    /\ calls[1].fn = "calculateRate"
    /\ calls[1].args = <<Rat(3, 2), One, Rat(3, 2), One>>

(***************************************************************************)
(* C5.  One rendered line; the fallback branch is dead.                    *)
(***************************************************************************)

OneRenderedLine(line) ==
    \/ /\ line.cls = "error"
       /\ line.text \in ValidationErrors \cup SolverErrors
       /\ line = ErrorLine(line.text)
    \/ line = MessageLine(MsgFrequency)
    \/ /\ line.cls = "p"
       /\ line.label \in { resultLabel(f) : f \in Fields }
       /\ line.num # UndefinedNum
       /\ line = ValueLine(line.label, line.num, line.unit)

\* C5: a calculation request made in any reachable state of the form runs to
\* completion and leaves exactly one rendered line: an error message, the
\* advisory message or a labelled value; every solver result carries exactly
\* one of error, message, value, and the 'unexpected error' fallback is never
\* rendered.  The same holds of the line and the calls the last request left.
C5_OneLineNoFallback ==
    /\ OneRenderedLine(performCalculation.resultDiv)
    /\ performCalculation.resultDiv # ErrorLine(ErrUnexpected)
    /\ \A i \in 1..Len(performCalculation.calls) :
          Carried(performCalculation.calls[i].ret) = 1
    /\ resultDiv = Blank \/ OneRenderedLine(resultDiv)
    /\ resultDiv # ErrorLine(ErrUnexpected)
    /\ \A i \in 1..Len(calls) : Carried(calls[i].ret) = 1

C5_Witness ==
    /\ resultDiv = ValueLine("Time", Zero, " years")
    /\ Len(calls) = 1
    /\ calls[1].ret = ValueResult(Zero)

(***************************************************************************)
(* C6.  Solve for Time at a zero rate.                                     *)
(***************************************************************************)

\* the one call SolverSpec has made is of fn
Applied(fn) == Len(calls) = 1 /\ calls[1].fn = fn

\* C6: calculateTime with a zero rate and A different from P (A > 0, P > 0,
\* n > 0) fails with the DomainViolation outcome, not with the InvalidInput
\* outcome of out-of-range values.
C6_ZeroRateIsDomainViolation ==
    (/\ Applied("calculateTime")
     /\ in.R = Zero /\ in.A # in.P
     /\ Gt(in.A, Zero) /\ Gt(in.P, Zero) /\ Gt(in.n, Zero))
    => /\ calls[1].ret.error \in DomainViolation
       /\ calls[1].ret.error \notin InvalidInput

(***************************************************************************)
(* C7.  Solve for Frequency is an advisory.                                *)
(***************************************************************************)

\* C7: calculateFrequency returns the advisory message for every input, with
\* no value and no error, and that result is rendered as the advisory line.
C7_FrequencyIsAdvisory ==
    Applied("calculateFrequency") =>
        /\ calls[1].ret.message = MsgFrequency
        /\ calls[1].ret.error = Undefined
        /\ calls[1].ret.value = UndefinedNum
        /\ render("frequency", calls[1].ret) = MessageLine(MsgFrequency)

C7_Witness ==
    /\ Applied("calculateFrequency")
    /\ calls[1].args = <<Int2Num(-5), Zero, Int2Num(-5), Int2Num(-1)>>
    /\ calls[1].ret.message = MsgFrequency

(***************************************************************************)
(* C8.  Round trip amount -> principal.                                    *)
(***************************************************************************)

RoundTripInputs ==
    Gt(in.P, Zero) /\ Le(Zero, in.R) /\ Gt(in.T, Zero) /\ Gt(in.n, Zero)

AmountReturned ==
    /\ Len(calls) >= 1
    /\ calls[1].fn = "calculateFinalAmount"
    /\ calls[1].args = <<in.P, in.R, in.T, in.n>>

PrincipalReturned ==
    /\ AmountReturned
    /\ Len(calls) = 2
    /\ calls[2].fn = "calculatePrincipal"

\* C8 as stated: for all P > 0, R >= 0, T > 0, n > 0 calculateFinalAmount
\* returns a value A and calculatePrincipal(A, R, T, n) returns P; neither
\* returns an error.
C8_RoundTrip ==
    /\ (AmountReturned /\ RoundTripInputs) => Carried(calls[1].ret) = 1
                                              /\ calls[1].ret.value # UndefinedNum
    /\ (PrincipalReturned /\ RoundTripInputs) => /\ calls[2].ret.error = Undefined
                                                 /\ calls[2].ret.value = in.P

\* C8 as amended: neither call returns an error, and whenever the amount A that
\* calculateFinalAmount returned is finite, calculatePrincipal(A, R, T, n)
\* returns P.
C8_RoundTripWhenFinite ==
    /\ (AmountReturned /\ RoundTripInputs) => Carried(calls[1].ret) = 1
                                              /\ calls[1].ret.value # UndefinedNum
    /\ (PrincipalReturned /\ RoundTripInputs) =>
          /\ calls[2].ret.error = Undefined
          /\ calls[2].ret.value # UndefinedNum
          /\ IsFinite(calls[1].ret.value) => calls[2].ret.value = in.P

C8_Witness ==
    /\ PrincipalReturned
    /\ in.P = Int2Num(1000) /\ in.R = Int2Num(50) /\ in.T = One /\ in.n = Int2Num(2)
    /\ calls[1].ret.value # in.P
    /\ IsFinite(calls[1].ret.value)
    /\ calls[2].ret.value = in.P

(***************************************************************************)
(* C9.  Validation covers the range checks of the amount and principal     *)
(* solvers.                                                                *)
(***************************************************************************)

\* C9: when the target is 'amount' or 'principal' and a request passes the
\* validation, the dispatched solver returns a value, not its range error, and
\* the rendered line is the labelled value.
C9_ValidatedRequestYieldsValue ==
    (solveFor \in {"amount", "principal"} /\ PassesValidation) =>
        LET made == performCalculation.calls
            line == performCalculation.resultDiv
        IN  /\ Len(made) = 1
            /\ made[1].ret.error = Undefined
            /\ made[1].ret.value # UndefinedNum
            /\ line.cls = "p"
            /\ line.label = resultLabel(solveFor)
            /\ line.num # UndefinedNum

C9_Witness ==
    /\ solveFor = "principal"
    /\ PassesValidation
    /\ Len(calls) = 1
    /\ calls[1].fn = "calculatePrincipal"
    /\ resultDiv = performCalculation.resultDiv
    /\ resultDiv.label = "Principal"
    /\ resultDiv.num = Rat(99, 100)

(***************************************************************************)
(* C10.  A field that stops being the target stays empty until edited.     *)
(***************************************************************************)

\* positions in FieldOrder of the non-target fields that are empty
EmptyFields ==
    { i \in 1..5 : FieldOrder[i] # solveFor /\ value[FieldOrder[i]] = <<>> }

\* C10: after the target changes from X to Y, X is enabled and empty; a field
\* gets a value only by a user edit, and a request (the only step that writes
\* the result area) leaves every field as it was; and a request made while a
\* non-target field is empty invokes no solver and renders the validation
\* error of that field or of a field before it in the fixed order.
C10_FormerTargetStaysEmpty ==
    /\ [][solveFor' # solveFor => (~disabled'[solveFor] /\ value'[solveFor] = <<>>)]_vars
    /\ [][\A f \in Fields : (value[f] = <<>> /\ value'[f] # <<>>) => EditField]_vars
    /\ [][(resultDiv' # resultDiv \/ calls' # calls) => value' = value]_vars
    /\ [](EmptyFields # {} =>
            /\ performCalculation.calls = <<>>
            /\ \E i \in 1..Min(EmptyFields) :
                  performCalculation.resultDiv
                      = ErrorLine(ValidationMessage(FieldOrder[i])))

C10_Witness ==
    /\ solveFor = "principal"
    /\ ~disabled["amount"]
    /\ value["amount"] = <<>>
    /\ value["rate"] = <<"1">> /\ value["time"] = <<"1">> /\ value["frequency"] = <<"1">>
    /\ resultDiv = ErrorLine(ErrValidAmount)
    /\ calls = <<>>

====
